---------------------------- MODULE Spec2Model ----------------------------
(***************************************************************************)
(* A model of the deployer's command layer (pkg/commands/deploy.go,        *)
(* pkg/commands/render.go) and of the resource-topology-exporter manifest  *)
(* set (pkg/manifests/rte/rte.go).                                         *)
(*                                                                         *)
(* Its specifications:                                                     *)
(*   Spec    one invocation of one command of the CLI (deploy, remove,     *)
(*           render and their subcommands), from flag parsing to return;   *)
(*   SpecMf  a client of the rte package that builds a manifest set and    *)
(*           then calls Clone and Update on the sets it holds;             *)
(*   SpecExport  such a client that also calls ToObjects,                  *)
(*           ToCreatableObjects and ToDeletableObjects on them.            *)
(*   SpecMutate  such a client that writes to an object of a set it holds; *)
(*   SpecWait  deploy topology-updater and remove topology-updater, with   *)
(*           the Updater's pass over its plan shown entry by entry.        *)
(***************************************************************************)
EXTENDS Integers, Sequences, FiniteSets, TLC

VARIABLES
    \* ---- one command invocation (pkg/commands) ----
    cmd,          \* the command that was invoked: [verb, sub]
    commonOpts,   \* *CommonOptions: flags shared by all commands
    opts,         \* *deployOptions: clusterPlatform, waitCompletion
    probe,        \* what the platform auto-detection finds on the cluster
    pc,           \* position in the command's RunE
    step,         \* index of the subsystem step in progress (0: none)
    calls,        \* the subsystem steps invoked so far, with their arguments
    results,      \* what each step that has returned gave back ("": nil)
    logged,       \* lines written with log.Printf
    rendered,     \* subsystems whose objects were handed to renderObjects
    updates,      \* the Update calls of a render command, with their options
    events,       \* what a subsystem's Deploy/Remove did: submissions and waits
    ret,          \* what RunE returned
    \* ---- a client of pkg/manifests/rte ----
    heap,         \* the objects allocated so far; a pointer is an index
    sets,         \* the Manifests values the client holds
    hist,         \* the Update calls made so far and what each returned
    clones,       \* the Clone calls made so far: the set cloned, the set returned
    out,          \* the result of the last export call
    panicked,     \* a nil pointer was dereferenced: the process is gone
    limit         \* how many Manifests values this client holds at most

cmdVars == <<cmd, commonOpts, opts, probe, pc, step, calls, results, logged, rendered,
             updates, events, ret>>
mfVars  == <<heap, sets, hist, clones, out, panicked, limit>>
vars    == <<cmd, commonOpts, opts, probe, pc, step, calls, results, logged, rendered,
             updates, events, ret,
             heap, sets, hist, clones, out, panicked, limit>>

(***************************************************************************)
(* platform.Platform                                                       *)
(***************************************************************************)
Unknown    == "Unknown"
Kubernetes == "Kubernetes"
OpenShift  == "OpenShift"
Platforms  == {Unknown, Kubernetes, OpenShift}

(***************************************************************************)
(* The command tree: deploy, remove and render, each with the subcommands  *)
(* api, scheduler-plugin and topology-updater ("all": no subcommand).      *)
(***************************************************************************)
Verbs    == {"deploy", "remove", "render"}
Subs     == {"all", "api", "scheduler-plugin", "topology-updater"}
Commands == [verb : Verbs, sub : Subs]

ConfigPayloads == {"", "cfgA"}
UpdaterTypes   == {"RTE", "NFD"}
Errs           == {"errA", "errB"}
ReplicaCounts  == {0, 1}   \* values of the replicas flag

Error(msg, from) == [kind |-> "error", msg |-> msg, from |-> from]
Nil     == [kind |-> "nil", msg |-> "", from |-> ""]
Running == [kind |-> "running", msg |-> "", from |-> ""]
\* the goroutine panicked in `from`: RunE returns nothing
Panic(from) == [kind |-> "panic", msg |-> "nil pointer dereference", from |-> from]

\* the conversion int32(x) of an int: the value is kept when it lies within
\* 32 bits, as every value of ReplicaCounts does
int32(x) == IF -2147483647 <= x /\ x <= 2147483647 THEN x ELSE 0

(***************************************************************************)
(* detectPlatform: an explicit user choice wins; otherwise the cluster is  *)
(* probed; Unknown is discovered only with no override and a failed probe. *)
(***************************************************************************)
detectPlatform(userPlatform, probed) ==
    [Discovered |-> IF userPlatform # Unknown THEN userPlatform ELSE probed]

(***************************************************************************)
(* The Options value a command passes to a subsystem step.  A field the    *)
(* composite literal does not set keeps Go's zero value ("" or false).     *)
(***************************************************************************)
ZeroOptions ==
    [Platform |-> "", WaitCompletion |-> FALSE, ConfigData |-> "",
     PullIfNotPresent |-> FALSE, UpdaterType |-> ""]

\* api.Options{Platform: opts.clusterPlatform}
apiOptions(o) == [ZeroOptions EXCEPT !.Platform = o.clusterPlatform]

\* api.Options{Platform: ..., UpdaterType: commonOpts.UpdaterType}
apiOptionsTyped(co, o) ==
    [ZeroOptions EXCEPT !.Platform = o.clusterPlatform, !.UpdaterType = co.UpdaterType]

\* fullOptions had it left WaitCompletion at its zero value
fullOptionsNoWait(co, o) ==
    [Platform         |-> o.clusterPlatform,
     WaitCompletion   |-> FALSE,
     ConfigData       |-> co.UpdaterConfigData,
     PullIfNotPresent |-> co.PullIfNotPresent,
     UpdaterType      |-> co.UpdaterType]

\* updater.Options{...} and sched.Options{...}: the same five values
fullOptions(co, o) ==
    [Platform         |-> o.clusterPlatform,
     WaitCompletion   |-> o.waitCompletion,
     ConfigData       |-> co.UpdaterConfigData,
     PullIfNotPresent |-> co.PullIfNotPresent,
     UpdaterType      |-> co.UpdaterType]

\* the arguments of a GetManifests call of the render path
renderArgs(co, typed) ==
    [ZeroOptions EXCEPT !.Platform = co.UserPlatform,
                        !.UpdaterType = IF typed THEN co.UpdaterType ELSE ""]

(***************************************************************************)
(* The body of each command's RunE after the platform gate: the steps it   *)
(* calls, in the order of the code, each with the arguments it is given    *)
(* and with what the code does when the step returns an error:             *)
(*   "return"  if err != nil { return err }   (or  return f(...))          *)
(*   "log"     if err != nil { log.Printf("error removing: %v", err) }     *)
(*   "wrap"    return fmt.Errorf("...: %w", err)                           *)
(* An Update call returns no error ("none"); `to` names the variable its   *)
(* result is assigned to, "" when the result is only passed to ToObjects.  *)
(***************************************************************************)
Step(fn, args, onErr) == [fn |-> fn, args |-> args, onErr |-> onErr, to |-> ""]

UpdateFns == {"api.Update", "updater.Update", "sched.Update"}

UpdateStep(fn, args, to) == [fn |-> fn, args |-> args, onErr |-> "none", to |-> to]

\* updater.UpdateOptions{ConfigData: ..., PullIfNotPresent: ...}
updaterUpdateOpts(co) ==
    [ConfigData |-> co.UpdaterConfigData, PullIfNotPresent |-> co.PullIfNotPresent]

\* updater.UpdateOptions{}
NoUpdateOptions == [ConfigData |-> "", PullIfNotPresent |-> FALSE]

\* sched.UpdateOptions{Replicas: ..., NodeResourcesNamespace: ..., PullIfNotPresent: ...}
schedUpdateOpts(co, nodeResourcesNamespace) ==
    [Replicas               |-> int32(co.Replicas),
     NodeResourcesNamespace |-> nodeResourcesNamespace,
     PullIfNotPresent       |-> co.PullIfNotPresent]

\* deployOnCluster had it logged the Updater's error and kept going
deployOnClusterKeepsGoing(co, o) ==
    << Step("api.Deploy",     apiOptionsTyped(co, o), "return"),
       Step("updater.Deploy", fullOptions(co, o),     "log"),
       Step("sched.Deploy",   fullOptions(co, o),     "return") >>

\* deployOnCluster had it deployed the Scheduler before the Updater
deployOnClusterSchedFirst(co, o) ==
    << Step("api.Deploy",     apiOptionsTyped(co, o), "return"),
       Step("sched.Deploy",   fullOptions(co, o),     "return"),
       Step("updater.Deploy", fullOptions(co, o),     "return") >>

deployOnCluster(co, o) ==
    << Step("api.Deploy",     apiOptionsTyped(co, o), "return"),
       Step("updater.Deploy", fullOptions(co, o),     "return"),
       Step("sched.Deploy",   fullOptions(co, o),     "return") >>

\* NewRemoveCommand had it returned the Updater's error like deploy does
NewRemoveCommandFailFast(co, o) ==
    << Step("sched.Remove",   fullOptions(co, o), "log"),
       Step("updater.Remove", fullOptions(co, o), "return"),
       Step("api.Remove",     apiOptions(o),      "log") >>

NewRemoveCommand(co, o) ==
    << Step("sched.Remove",   fullOptions(co, o), "log"),
       Step("updater.Remove", fullOptions(co, o), "log"),
       Step("api.Remove",     apiOptions(o),      "log") >>

NewDeployAPICommand(co, o) ==
    << Step("api.Deploy", apiOptions(o), "return") >>

NewDeploySchedulerPluginCommand(co, o) ==
    << Step("sched.Deploy", fullOptions(co, o), "return") >>

NewDeployTopologyUpdaterCommand(co, o) ==
    << Step("updater.Deploy", fullOptions(co, o), "return") >>

NewRemoveAPICommand(co, o) ==
    << Step("api.Remove", apiOptions(o), "return") >>

\* NewRemoveSchedulerPluginCommand had it logged the error like remove does
NewRemoveSchedulerPluginCommandLogs(co, o) ==
    << Step("sched.Remove", fullOptions(co, o), "log") >>

NewRemoveSchedulerPluginCommand(co, o) ==
    << Step("sched.Remove", fullOptions(co, o), "return") >>

NewRemoveTopologyUpdaterCommand(co, o) ==
    << Step("updater.Remove", fullOptions(co, o), "return") >>

\* The options of a sched.Update step are built when the step is reached,
\* from the updaterManifests variable as it is then (schedManifestsUpdate).
renderManifests(co, o) ==
    << Step("api.GetManifests",            renderArgs(co, TRUE),  "return"),
       UpdateStep("api.Update",            ZeroOptions,           ""),
       Step("updater.GetManifestsHandler", renderArgs(co, TRUE),  "return"),
       UpdateStep("updater.Update",        updaterUpdateOpts(co), ""),
       Step("sched.GetManifests",          renderArgs(co, FALSE), "return"),
       UpdateStep("sched.Update",          ZeroOptions,           ""),
       Step("renderObjects",               ZeroOptions,           "return") >>

NewRenderAPICommand(co, o) ==
    << Step("api.GetManifests", renderArgs(co, TRUE), "return"),
       UpdateStep("api.Update", ZeroOptions,          ""),
       Step("renderObjects",    ZeroOptions,          "return") >>

NewRenderSchedulerPluginCommand(co, o) ==
    << Step("sched.GetManifests",          renderArgs(co, FALSE), "return"),
       Step("updater.GetManifestsHandler", renderArgs(co, TRUE),  "wrap"),
       UpdateStep("updater.Update",        NoUpdateOptions,       "updaterManifests"),
       UpdateStep("sched.Update",          ZeroOptions,           ""),
       Step("renderObjects",               ZeroOptions,           "return") >>

NewRenderTopologyUpdaterCommand(co, o) ==
    << Step("updater.GetManifestsHandler", renderArgs(co, TRUE),  "return"),
       UpdateStep("updater.Update",        updaterUpdateOpts(co), ""),
       Step("renderObjects",               ZeroOptions,           "return") >>

\* cobra's dispatch: the RunE of the command named on the command line
Program(c, co, o) ==
    CASE c.verb = "deploy" /\ c.sub = "all"              -> deployOnCluster(co, o)
      [] c.verb = "deploy" /\ c.sub = "api"              -> NewDeployAPICommand(co, o)
      [] c.verb = "deploy" /\ c.sub = "scheduler-plugin" -> NewDeploySchedulerPluginCommand(co, o)
      [] c.verb = "deploy" /\ c.sub = "topology-updater" -> NewDeployTopologyUpdaterCommand(co, o)
      [] c.verb = "remove" /\ c.sub = "all"              -> NewRemoveCommand(co, o)
      [] c.verb = "remove" /\ c.sub = "api"              -> NewRemoveAPICommand(co, o)
      [] c.verb = "remove" /\ c.sub = "scheduler-plugin" -> NewRemoveSchedulerPluginCommand(co, o)
      [] c.verb = "remove" /\ c.sub = "topology-updater" -> NewRemoveTopologyUpdaterCommand(co, o)
      [] c.verb = "render" /\ c.sub = "all"              -> renderManifests(co, o)
      [] c.verb = "render" /\ c.sub = "api"              -> NewRenderAPICommand(co, o)
      [] c.verb = "render" /\ c.sub = "scheduler-plugin" -> NewRenderSchedulerPluginCommand(co, o)
      [] c.verb = "render" /\ c.sub = "topology-updater" -> NewRenderTopologyUpdaterCommand(co, o)

\* the subsystems whose objects a render command hands to renderObjects
RenderedBy(c) ==
    CASE c.sub = "all"              -> <<"api", "updater", "sched">>
      [] c.sub = "api"              -> <<"api">>
      [] c.sub = "scheduler-plugin" -> <<"sched">>
      [] c.sub = "topology-updater" -> <<"updater">>

(***************************************************************************)
(* The state of section 4.4 the invocation is in.                          *)
(***************************************************************************)
StateName(fn) ==
    CASE fn = "api.Deploy"      -> "Deploying(API)"
      [] fn = "updater.Deploy"  -> "Deploying(Updater)"
      [] fn = "sched.Deploy"    -> "Deploying(Scheduler)"
      [] fn = "api.Remove"      -> "Removing(API)"
      [] fn = "updater.Remove"  -> "Removing(Updater)"
      [] fn = "sched.Remove"    -> "Removing(Scheduler)"
      [] OTHER                  -> fn

Prog  == Program(cmd, commonOpts, opts)
State == IF pc = "InStep" THEN StateName(Prog[step].fn) ELSE pc

(***************************************************************************)
(* Actions of one command invocation.                                      *)
(***************************************************************************)
mfIdle == UNCHANGED mfVars

\* Calling step i of the program: a subsystem step is recorded with its
\* arguments; renderObjects writes the collected objects to the output.
Invoke(i) ==
    /\ pc' = "InStep"
    /\ step' = i
    /\ CASE Prog[i].fn = "renderObjects" ->
                /\ rendered' = rendered \o RenderedBy(cmd)
                /\ UNCHANGED calls
           [] Prog[i].fn \in UpdateFns ->
                UNCHANGED <<calls, rendered>>
           [] OTHER ->
                /\ calls' = Append(calls, [fn |-> Prog[i].fn, args |-> Prog[i].args])
                /\ UNCHANGED rendered

\* ResolvePlatform without the check for platform.Unknown
ResolvePlatformNoGate ==
    /\ pc = "Init"
    /\ cmd.verb \in {"deploy", "remove"}
    /\ opts' = [opts EXCEPT !.clusterPlatform =
                   detectPlatform(commonOpts.UserPlatform, probe).Discovered]
    /\ pc' = "PlatformResolved"
    /\ UNCHANGED <<cmd, commonOpts, events, probe, step, calls, results, logged, rendered, updates, ret>>
    /\ mfIdle

\* deploy and remove commands: detect the platform, fail when it is Unknown
ResolvePlatform ==
    /\ pc = "Init"
    /\ cmd.verb \in {"deploy", "remove"}
    /\ LET platDetect == detectPlatform(commonOpts.UserPlatform, probe) IN
         /\ opts' = [opts EXCEPT !.clusterPlatform = platDetect.Discovered]
         /\ IF platDetect.Discovered = Unknown
              THEN /\ pc' = "Failed"
                   /\ ret' = Error("cannot autodetect the platform, and no platform given", "")
              ELSE /\ pc' = "PlatformResolved"
                   /\ UNCHANGED ret
    /\ UNCHANGED <<cmd, commonOpts, events, probe, step, calls, results, logged, rendered, updates>>
    /\ mfIdle

\* render commands: the platform must have been given on the command line
RenderGate ==
    /\ pc = "Init"
    /\ cmd.verb = "render"
    /\ IF commonOpts.UserPlatform = Unknown
         THEN /\ pc' = "Failed"
              /\ ret' = Error("must explicitely select a cluster platform", "")
         ELSE /\ pc' = "PlatformResolved"
              /\ UNCHANGED ret
    /\ UNCHANGED <<cmd, commonOpts, events, opts, probe, step, calls, results, logged, rendered, updates>>
    /\ mfIdle

\* the first step of the command is called
Start ==
    /\ pc = "PlatformResolved"
    /\ Invoke(1)
    /\ UNCHANGED <<cmd, commonOpts, events, opts, probe, results, logged, updates, ret>>
    /\ mfIdle

\* the code after step `step` has returned: call the next step, or return nil
Continue ==
    IF step < Len(Prog)
      THEN /\ Invoke(step + 1)
           /\ UNCHANGED ret
      ELSE /\ pc' = "Done"
           /\ ret' = Nil
           /\ UNCHANGED <<step, calls, rendered>>

\* the step in progress returns nil (the Update calls and the call that
\* builds the Updater's manifest set are further down, with the rte package)
StepReturnsNil ==
    /\ pc = "InStep"
    /\ Prog[step].fn \notin UpdateFns \cup {"updater.GetManifestsHandler"}
    /\ results' = Append(results, [fn |-> Prog[step].fn, err |-> ""])
    /\ Continue
    /\ UNCHANGED <<cmd, commonOpts, events, opts, probe, logged, updates>>
    /\ mfIdle

\* the step in progress returns an error
StepReturnsErr ==
    /\ pc = "InStep"
    /\ Prog[step].onErr # "none"
    /\ \E e \in Errs :
         /\ results' = Append(results, [fn |-> Prog[step].fn, err |-> e])
         /\ CASE Prog[step].onErr = "return" ->
                   /\ pc' = "Failed"
                   /\ ret' = Error(e, Prog[step].fn)
                   /\ UNCHANGED <<step, calls, rendered, logged>>
              [] Prog[step].onErr = "wrap" ->
                   /\ pc' = "Failed"
                   /\ ret' = Error("cannot get the rte manifests for sched: " \o e, Prog[step].fn)
                   /\ UNCHANGED <<step, calls, rendered, logged>>
              [] Prog[step].onErr = "log" ->
                   /\ logged' = Append(logged, "error removing: " \o e)
                   /\ Continue
    /\ UNCHANGED <<cmd, commonOpts, events, opts, probe, updates>>
    /\ mfIdle

NoOut == [op |-> "", src |-> 0, val |-> <<>>]

\* the rte package before any call: a client that holds at most n sets
mfInit(n) ==
    /\ limit = n
    /\ heap = <<>>
    /\ sets = <<>>
    /\ hist = <<>>
    /\ clones = <<>>
    /\ out = NoOut
    /\ panicked = FALSE

(***************************************************************************)
(* Spec: one command invocation.  The command line and the cluster are     *)
(* chosen in the initial state; a step's outcome is chosen when it returns.*)
(***************************************************************************)
Init ==
    /\ cmd \in Commands
    /\ commonOpts \in [UserPlatform      : Platforms,
                       UpdaterConfigData : ConfigPayloads,
                       PullIfNotPresent  : BOOLEAN,
                       UpdaterType       : UpdaterTypes,
                       Replicas          : ReplicaCounts]
    /\ opts \in [clusterPlatform : {Unknown}, waitCompletion : BOOLEAN]
    /\ probe \in Platforms
    /\ pc = "Init"
    /\ step = 0
    /\ calls = <<>>
    /\ results = <<>>
    /\ logged = <<>>
    /\ rendered = <<>>
    /\ updates = <<>>
    /\ events = <<>>
    /\ ret = Running
    /\ mfInit(0)

(***************************************************************************)
(* Properties of a command invocation (Spec, FairSpec).                    *)
(***************************************************************************)
DeployAll == [verb |-> "deploy", sub |-> "all"]
RemoveAll == [verb |-> "remove", sub |-> "all"]

DeployOrder == <<"api.Deploy", "updater.Deploy", "sched.Deploy">>
RemoveOrder == <<"sched.Remove", "updater.Remove", "api.Remove">>

Fns(seq)    == [i \in DOMAIN seq |-> seq[i].fn]
Failures    == {i \in DOMAIN results : results[i].err # ""}
Terminal    == pc \in {"Done", "Failed"}

\* C1 (deploy fail-fast): in the aggregate deploy command, a deploy step
\* that returned an error is the last step that was ever invoked (the steps
\* invoked are a prefix of API, Updater, Scheduler ending with it), and the
\* command has returned exactly that step's error; when the Updater step
\* failed, the Scheduler step is not among the steps invoked.
C1_DeployFailFast ==
    cmd = DeployAll =>
        \A i \in DOMAIN results :
            results[i].err # "" =>
                /\ i = Len(results)
                /\ Fns(calls) = SubSeq(DeployOrder, 1, i)
                /\ pc = "Failed"
                /\ ret = Error(results[i].err, results[i].fn)
                /\ (results[i].fn = "updater.Deploy" =>
                        \A j \in DOMAIN calls : calls[j].fn # "sched.Deploy")

C1_Witness ==
    /\ cmd = DeployAll
    /\ Len(results) = 2
    /\ results[1].err = ""
    /\ results[2] = [fn |-> "updater.Deploy", err |-> "errB"]
    /\ ret = Error("errB", "updater.Deploy")

\* C2 (remove fail-soft): in the aggregate remove command, once the platform
\* is resolved, the steps invoked are a prefix of Scheduler, Updater, API
\* (each once, in that order), a step is invoked whatever the earlier steps
\* returned, there is one logged line per step that failed, the command never
\* returns an error, and when it is done all three steps were invoked and it
\* returned nil.
C2_RemoveFailSoft ==
    (cmd = RemoveAll /\ pc # "Init" /\ opts.clusterPlatform # Unknown) =>
        /\ pc # "Failed"
        /\ ret.kind # "error"
        /\ Fns(calls) = SubSeq(RemoveOrder, 1, Len(calls))
        /\ Fns(results) = SubSeq(RemoveOrder, 1, Len(results))
        /\ (pc = "InStep" => Len(calls) = Len(results) + 1)
        /\ Len(logged) = Cardinality(Failures)
        /\ (pc = "Done" => /\ Fns(calls) = RemoveOrder
                           /\ Len(results) = 3
                           /\ ret = Nil)

C2_Witness ==
    /\ cmd = RemoveAll
    /\ pc = "Done"
    /\ Failures = {1, 2, 3}
    /\ Len(logged) = 3
    /\ ret = Nil

\* The transitions of the deploy state machine of section 4.4.
DeployTransitions ==
    { <<"Init", "PlatformResolved">>,
      <<"PlatformResolved", "Deploying(API)">>,
      <<"Deploying(API)", "Deploying(Updater)">>,
      <<"Deploying(Updater)", "Deploying(Scheduler)">>,
      <<"Deploying(Scheduler)", "Done">> }
    \cup { <<s, "Failed">> : s \in {"Init", "Deploying(API)", "Deploying(Updater)",
                                    "Deploying(Scheduler)"} }

C3_StepOrder ==
    (cmd = DeployAll /\ State' # State) =>
        /\ <<State, State'>> \in DeployTransitions
        /\ (State' = "Deploying(Updater)" =>
                results' = <<[fn |-> "api.Deploy", err |-> ""]>>)
        /\ (State' = "Deploying(Scheduler)" =>
                results' = <<[fn |-> "api.Deploy", err |-> ""],
                             [fn |-> "updater.Deploy", err |-> ""]>>)

C3_Result ==
    (cmd = DeployAll /\ Terminal) =>
        (ret = Nil <=> (Len(results) = 3 /\ Failures = {}))

\* C3 (deploy state sequence): a run of the aggregate deploy command moves
\* only along Init, PlatformResolved, Deploying(API), Deploying(Updater),
\* Deploying(Scheduler), Done, one state at a time and never back, or from
\* Init or a Deploying state to the error exit; it enters Deploying(Updater)
\* only when the API step returned nil and Deploying(Scheduler) only when the
\* Updater step returned nil; it returns nil exactly when the three steps
\* returned nil; and, every step returning, it reaches Done or the error exit.
C3_DeployStateSequence ==
    /\ [][C3_StepOrder]_vars
    /\ [](C3_Result)
    /\ <>(cmd = DeployAll => Terminal)

C3_Witness ==
    /\ cmd = DeployAll
    /\ State = "Done"
    /\ Fns(calls) = DeployOrder
    /\ ret = Nil

\* The platform the command works with: render takes it from the command
\* line, deploy and remove from the detection.
ResolvedPlatform ==
    IF cmd.verb = "render" THEN commonOpts.UserPlatform ELSE opts.clusterPlatform

\* C4 (platform gate): in every deploy, remove and render command, when the
\* platform resolved to Unknown the command has returned an error with no
\* subsystem step invoked, no manifest set constructed and nothing rendered;
\* and every step invoked was given the resolved platform, which is not
\* Unknown (so all the steps of the invocation were given the same one).
C4_PlatformGate ==
    /\ (pc # "Init" /\ ResolvedPlatform = Unknown) =>
           /\ pc = "Failed"
           /\ ret.kind = "error"
           /\ calls = <<>>
           /\ results = <<>>
           /\ rendered = <<>>
    /\ \A i \in DOMAIN calls :
           /\ calls[i].args.Platform \in {Kubernetes, OpenShift}
           /\ calls[i].args.Platform = ResolvedPlatform
    /\ (rendered # <<>> => ResolvedPlatform # Unknown)

C4_Witness ==
    /\ cmd = [verb |-> "remove", sub |-> "scheduler-plugin"]
    /\ commonOpts.UserPlatform = Unknown
    /\ probe = Unknown
    /\ pc = "Failed"
    /\ ret.kind = "error"

(***************************************************************************)
(*                     pkg/manifests/rte: the manifest set                 *)
(*                                                                         *)
(* Objects live in a heap; a pointer is an index into it and 0 is nil.     *)
(* An object carries the fields the package reads or writes.               *)
(***************************************************************************)
MaxSets       == 4    \* the Manifests values a patching client holds at most
MaxExportSets == 3    \* the Manifests values an exporting client holds at most
MaxMutateSets == 2    \* the Manifests values a client that writes to one holds at most

namespaceOCP      == "openshift-monitoring"
serviceAccountOCP == "node-exporter"

Namespaces == {"", "ns1"}     \* namespace arguments of GetManifestsForNamespace

ObjZero ==
    [kind |-> "", name |-> "", namespace |-> "",
     serviceAccountName |-> "",                  \* DaemonSet: Spec.Template.Spec
     subjectName |-> "", subjectNamespace |-> "",\* RoleBinding: Subjects
     data |-> {},                                \* ConfigMap: Data, as <<key, value>>
     imagePullPolicy |-> "", configMapRef |-> ""]\* DaemonSet: container, volume

NilObj == [ObjZero EXCEPT !.kind = "nil"]

\* The templates of the resource-topology-exporter component.
NamespaceTemplate ==
    [ObjZero EXCEPT !.kind = "Namespace", !.name = "tas-topology-updater"]
ServiceAccountTemplate ==
    [ObjZero EXCEPT !.kind = "ServiceAccount", !.name = "rte"]
RoleTemplate ==
    [ObjZero EXCEPT !.kind = "Role", !.name = "rte"]
RoleBindingTemplate ==
    [ObjZero EXCEPT !.kind = "RoleBinding", !.name = "rte",
                    !.subjectName = "rte", !.subjectNamespace = "default"]
DaemonSetTemplate ==
    [ObjZero EXCEPT !.kind = "DaemonSet", !.name = "resource-topology-exporter-ds",
                    !.imagePullPolicy = "Always"]

\* type Manifests struct: the zero value
ManifestsZero ==
    [Namespace |-> 0, ServiceAccount |-> 0, Role |-> 0, RoleBinding |-> 0,
     ConfigMap |-> 0, DaemonSet |-> 0,
     plat |-> Unknown, namespace |-> "", serviceAccount |-> ""]

\* type UpdateOptions struct
UpdateOptions == [ConfigData : ConfigPayloads, PullIfNotPresent : BOOLEAN]

\* new(T): the object is put on the heap and its address returned
New(h, obj) == [heap |-> Append(h, obj), ptr |-> Len(h) + 1]

\* (*T).DeepCopy: nil for a nil receiver, else a fresh copy of the object
DeepCopy(h, p) ==
    IF p = 0 THEN [heap |-> h, ptr |-> 0] ELSE New(h, h[p])

\* Clone had it copied the struct and not the objects it points to
CloneShallow(h, mf) ==
    [heap |-> h, mf |-> [mf EXCEPT !.ConfigMap = 0]]

\* Clone had it left the Namespace out
CloneDropsNamespace(h, mf) ==
    LET r  == DeepCopy(h, mf.Role)
        rb == DeepCopy(r.heap, mf.RoleBinding)
        ds == DeepCopy(rb.heap, mf.DaemonSet)
        sa == IF mf.plat = Kubernetes THEN DeepCopy(ds.heap, mf.ServiceAccount)
                                      ELSE [heap |-> ds.heap, ptr |-> 0]
    IN [heap |-> sa.heap,
        mf   |-> [ManifestsZero EXCEPT
                    !.plat = mf.plat, !.namespace = mf.namespace,
                    !.serviceAccount = mf.serviceAccount,
                    !.Role = r.ptr, !.RoleBinding = rb.ptr, !.DaemonSet = ds.ptr,
                    !.ServiceAccount = sa.ptr]]

\* func (mf Manifests) Clone() Manifests
Clone(h, mf) ==
    LET r  == DeepCopy(h, mf.Role)
        rb == DeepCopy(r.heap, mf.RoleBinding)
        ds == DeepCopy(rb.heap, mf.DaemonSet)
        sa == IF mf.plat = Kubernetes THEN DeepCopy(ds.heap, mf.ServiceAccount)
                                      ELSE [heap |-> ds.heap, ptr |-> 0]
        ns == IF mf.Namespace # 0 THEN DeepCopy(sa.heap, mf.Namespace)
                                  ELSE [heap |-> sa.heap, ptr |-> 0]
    IN [heap |-> ns.heap,
        mf   |-> [ManifestsZero EXCEPT
                    !.plat = mf.plat, !.namespace = mf.namespace,
                    !.serviceAccount = mf.serviceAccount,
                    !.Role = r.ptr, !.RoleBinding = rb.ptr, !.DaemonSet = ds.ptr,
                    !.ServiceAccount = sa.ptr, !.Namespace = ns.ptr]]

\* createConfigMap had it keyed the payload by the object's name
createConfigMapKeyedByName(namespace, configData) ==
    [ObjZero EXCEPT !.kind = "ConfigMap", !.name = "rte-config",
                    !.namespace = namespace,
                    !.data = {<<"rte-config", configData>>}]

\* createConfigMap had it stamped the object with a running number
createConfigMapStamped(namespace, configData) ==
    [ObjZero EXCEPT !.kind = "ConfigMap", !.name = "rte-config",
                    !.namespace = namespace,
                    !.data = {<<"config.yaml", configData>>,
                              <<"generation", ToString(Len(heap))>>}]

\* func createConfigMap(namespace string, configData string) *corev1.ConfigMap
createConfigMap(namespace, configData) ==
    [ObjZero EXCEPT !.kind = "ConfigMap", !.name = "rte-config",
                    !.namespace = namespace,
                    !.data = {<<"config.yaml", configData>>}]

\* manifests.UpdateRoleBinding(rb, serviceAccount, namespace): the binding is
\* placed in the namespace and its subject names the service account there.
UpdateRoleBinding(h, rb, serviceAccount, namespace) ==
    [h EXCEPT ![rb].namespace = namespace,
              ![rb].subjectName = serviceAccount,
              ![rb].subjectNamespace = namespace]

\* manifests.UpdateResourceTopologyExporterDaemonSet(plat, ds, cm, pull): the
\* pull policy follows the flag; a config map, when given, is mounted.
UpdateResourceTopologyExporterDaemonSet(h, plat, ds, cm, pullIfNotPresent) ==
    [h EXCEPT ![ds].imagePullPolicy =
                  IF pullIfNotPresent THEN "IfNotPresent" ELSE "Always",
              ![ds].configMapRef =
                  IF cm # 0 THEN h[cm].name ELSE h[ds].configMapRef]

\* Update had it left the Role in the namespace of its template
UpdateLeavesRole(h, mf, options) ==
    LET c     == Clone(h, mf)
        clone == c.mf
    IN IF clone.ServiceAccount = 0
         THEN [heap |-> c.heap, mf |-> clone, panic |-> TRUE]
         ELSE
           LET h1  == [c.heap EXCEPT ![clone.ServiceAccount].namespace = mf.namespace]
               cm  == IF options.ConfigData # ""
                        THEN New(h1, createConfigMap(mf.namespace, options.ConfigData))
                        ELSE [heap |-> h1, ptr |-> clone.ConfigMap]
               h2  == [cm.heap EXCEPT ![clone.DaemonSet].namespace = mf.namespace]
               h3  == [h2 EXCEPT ![clone.DaemonSet].serviceAccountName = mf.serviceAccount]
               h5  == UpdateRoleBinding(h3, clone.RoleBinding, mf.serviceAccount, mf.namespace)
               h6  == UpdateResourceTopologyExporterDaemonSet(
                          h5, clone.plat, clone.DaemonSet, cm.ptr, options.PullIfNotPresent)
           IN [heap |-> h6, mf |-> [clone EXCEPT !.ConfigMap = cm.ptr], panic |-> FALSE]

(***************************************************************************)
(* func (mf Manifests) Update(options UpdateOptions) Manifests             *)
(* The first write goes through the clone's ServiceAccount: when that is   *)
(* a nil pointer the goroutine panics and nothing is returned.             *)
(***************************************************************************)
Update(h, mf, options) ==
    LET c     == Clone(h, mf)
        clone == c.mf   \* ret := mf.Clone()
    IN IF clone.ServiceAccount = 0
         THEN [heap |-> c.heap, mf |-> clone, panic |-> TRUE]
         ELSE
           LET h1  == [c.heap EXCEPT ![clone.ServiceAccount].namespace = mf.namespace]
               cm  == IF options.ConfigData # ""
                        THEN New(h1, createConfigMap(mf.namespace, options.ConfigData))
                        ELSE [heap |-> h1, ptr |-> clone.ConfigMap]
               h2  == [cm.heap EXCEPT ![clone.DaemonSet].namespace = mf.namespace]
               h3  == [h2 EXCEPT ![clone.DaemonSet].serviceAccountName = mf.serviceAccount]
               h4  == [h3 EXCEPT ![clone.Role].namespace = mf.namespace]
               h5  == UpdateRoleBinding(h4, clone.RoleBinding, mf.serviceAccount, mf.namespace)
               h6  == UpdateResourceTopologyExporterDaemonSet(
                          h5, clone.plat, clone.DaemonSet, cm.ptr, options.PullIfNotPresent)
           IN [heap |-> h6, mf |-> [clone EXCEPT !.ConfigMap = cm.ptr], panic |-> FALSE]

\* a client.Object: an interface value, the dynamic type and the pointer
\* (a nil pointer stored in an interface keeps its type)
Iface(type, p) == [type |-> type, ptr |-> p]

\* func (mf Manifests) ToObjects() []client.Object
ToObjects(mf) ==
    LET objs1 == << Iface("Role", mf.Role), Iface("RoleBinding", mf.RoleBinding) >>
        objs2 == IF mf.ConfigMap # 0
                   THEN Append(objs1, Iface("ConfigMap", mf.ConfigMap)) ELSE objs1
        objs3 == Append(objs2, Iface("DaemonSet", mf.DaemonSet))
        objs4 == IF mf.Namespace # 0
                   THEN <<Iface("Namespace", mf.Namespace)>> \o objs3 ELSE objs3
    IN IF mf.plat = Kubernetes
         THEN <<Iface("ServiceAccount", mf.ServiceAccount)>> \o objs4 ELSE objs4

\* deployer.WaitableObject: Obj and Wait; the Wait closure reads the fields
\* of an object of the set when it is called, so it is kept as the function
\* it calls and the pointer it reads through ("": no Wait)
Waitable(obj, waitFn, through) == [Obj |-> obj, Wait |-> [fn |-> waitFn, through |-> through]]
NoWait(obj) == Waitable(obj, "", 0)

\* ToCreatableObjects had it put the ConfigMap where ToObjects puts it
ToCreatableObjectsConfigLate(mf) ==
    LET objs1 == << NoWait(Iface("Role", mf.Role)),
                    NoWait(Iface("RoleBinding", mf.RoleBinding)) >>
        objs2 == IF mf.ConfigMap # 0
                   THEN Append(objs1, NoWait(Iface("ConfigMap", mf.ConfigMap))) ELSE objs1
        objs3 == Append(objs2, Waitable(Iface("DaemonSet", mf.DaemonSet),
                                        "wait.PodsToBeRunningByRegex", mf.DaemonSet))
    IN IF mf.plat = Kubernetes
         THEN << NoWait(Iface("Namespace", mf.Namespace)),
                 NoWait(Iface("ServiceAccount", mf.ServiceAccount)) >> \o objs3
         ELSE objs3

\* func (mf Manifests) ToCreatableObjects(hp, log) []deployer.WaitableObject
ToCreatableObjects(mf) ==
    LET objs1 == << NoWait(Iface("Role", mf.Role)),
                    NoWait(Iface("RoleBinding", mf.RoleBinding)),
                    Waitable(Iface("DaemonSet", mf.DaemonSet),
                             "wait.PodsToBeRunningByRegex", mf.DaemonSet) >>
        objs2 == IF mf.ConfigMap # 0
                   THEN <<NoWait(Iface("ConfigMap", mf.ConfigMap))>> \o objs1 ELSE objs1
    IN IF mf.plat = Kubernetes
         THEN << NoWait(Iface("Namespace", mf.Namespace)),
                 NoWait(Iface("ServiceAccount", mf.ServiceAccount)) >> \o objs2
         ELSE objs2

\* ToDeletableObjects had it deleted the objects one by one on every platform
ToDeletableObjectsNoCascade(mf) ==
    LET objs == << Waitable(Iface("DaemonSet", mf.DaemonSet),
                            "wait.PodsToBeGoneByRegex", mf.DaemonSet),
                   NoWait(Iface("Role", mf.Role)),
                   NoWait(Iface("RoleBinding", mf.RoleBinding)) >>
    IN IF mf.ConfigMap # 0
         THEN Append(objs, NoWait(Iface("ConfigMap", mf.ConfigMap))) ELSE objs

\* func (mf Manifests) ToDeletableObjects(hp, log) []deployer.WaitableObject
ToDeletableObjects(mf) ==
    IF mf.plat = Kubernetes
      THEN << Waitable(Iface("Namespace", mf.Namespace),
                       "wait.NamespaceToBeGone", mf.Namespace) >>
      ELSE
        LET objs == << Waitable(Iface("DaemonSet", mf.DaemonSet),
                                "wait.PodsToBeGoneByRegex", mf.DaemonSet),
                       NoWait(Iface("Role", mf.Role)),
                       NoWait(Iface("RoleBinding", mf.RoleBinding)) >>
        IN IF mf.ConfigMap # 0
             THEN Append(objs, NoWait(Iface("ConfigMap", mf.ConfigMap))) ELSE objs

(***************************************************************************)
(* The constructors.  A template of the store may be broken: the loader of *)
(* that template then returns (nil, err).                                  *)
(***************************************************************************)
Members == <<"Namespace", "ServiceAccount", "Role", "RoleBinding", "ConfigMap", "DaemonSet">>
Broken  == {"", "Namespace", "ServiceAccount", "Role", "RoleBinding", "DaemonSet"}

LoadError(what) == "cannot load " \o what

\* the tail both constructors share: Role, RoleBinding, DaemonSet
loadCommon(h, mf, broken) ==
    IF broken = "Role" THEN [heap |-> h, mf |-> mf, err |-> LoadError("Role")]
    ELSE
      LET r   == New(h, RoleTemplate)
          mf1 == [mf EXCEPT !.Role = r.ptr]
      IN IF broken = "RoleBinding"
           THEN [heap |-> r.heap, mf |-> mf1, err |-> LoadError("RoleBinding")]
           ELSE
             LET rb  == New(r.heap, RoleBindingTemplate)
                 mf2 == [mf1 EXCEPT !.RoleBinding = rb.ptr]
             IN IF broken = "DaemonSet"
                  THEN [heap |-> rb.heap, mf |-> mf2, err |-> LoadError("DaemonSet")]
                  ELSE
                    LET ds == New(rb.heap, DaemonSetTemplate)
                    IN [heap |-> ds.heap, mf |-> [mf2 EXCEPT !.DaemonSet = ds.ptr],
                        err |-> ""]

\* func GetManifests(plat platform.Platform) (Manifests, error)
GetManifests(h, plat, broken) ==
    LET mf == [ManifestsZero EXCEPT !.plat = plat]
    IN IF plat = Kubernetes
         THEN
           IF broken = "Namespace"
             THEN [heap |-> h, mf |-> mf, err |-> LoadError("Namespace")]
             ELSE
               LET ns  == New(h, NamespaceTemplate)
                   mf1 == [mf EXCEPT !.Namespace = ns.ptr,
                                     !.namespace = ns.heap[ns.ptr].name]
               IN IF broken = "ServiceAccount"
                    THEN [heap |-> ns.heap, mf |-> mf1, err |-> LoadError("ServiceAccount")]
                    ELSE
                      LET sa  == New(ns.heap, ServiceAccountTemplate)
                          mf2 == [mf1 EXCEPT !.ServiceAccount = sa.ptr,
                                             !.serviceAccount = sa.heap[sa.ptr].name]
                      IN loadCommon(sa.heap, mf2, broken)
         ELSE loadCommon(h, [mf EXCEPT !.namespace = namespaceOCP,
                                       !.serviceAccount = serviceAccountOCP], broken)

\* func GetManifestsForNamespace(plat platform.Platform, namespace string) (Manifests, error)
GetManifestsForNamespace(h, plat, namespace, broken) ==
    LET mf == [ManifestsZero EXCEPT !.namespace = namespace, !.plat = plat]
    IN IF plat = Kubernetes
         THEN
           IF broken = "ServiceAccount"
             THEN [heap |-> h, mf |-> mf, err |-> LoadError("ServiceAccount")]
             ELSE
               LET sa  == New(h, ServiceAccountTemplate)
                   mf1 == [mf EXCEPT !.ServiceAccount = sa.ptr,
                                     !.serviceAccount = sa.heap[sa.ptr].name]
               IN loadCommon(sa.heap, mf1, broken)
         ELSE loadCommon(h, [mf EXCEPT !.serviceAccount = serviceAccountOCP], broken)

(***************************************************************************)
(* Actions of a client of the package.  An entry of sets is what a call    *)
(* returned: the Manifests value, the error that came with it, and (for    *)
(* the record) the constructor the value descends from.                    *)
(***************************************************************************)
cmdIdle == UNCHANGED cmdVars

Held(mf, err, ctor) == [mf |-> mf, err |-> err, ctor |-> ctor]

\* the sets a caller goes on with: those that came without an error
Usable == {i \in DOMAIN sets : sets[i].err = ""}

\* the objects of a set, by member (NilObj for a nil member)
Snapshot(h, mf) ==
    [m \in {Members[k] : k \in DOMAIN Members} |->
        IF mf[m] = 0 THEN NilObj ELSE h[mf[m]]]

MfGetManifests ==
    /\ sets = <<>>
    /\ \E plat \in {Kubernetes, OpenShift}, broken \in Broken :
         LET r == GetManifests(heap, plat, broken) IN
           /\ heap' = r.heap
           /\ sets' = <<Held(r.mf, r.err, "GetManifests")>>
    /\ UNCHANGED <<hist, clones, out, panicked, limit>>
    /\ cmdIdle

MfGetManifestsForNamespace ==
    /\ sets = <<>>
    /\ \E plat \in {Kubernetes, OpenShift}, namespace \in Namespaces, broken \in Broken :
         LET r == GetManifestsForNamespace(heap, plat, namespace, broken) IN
           /\ heap' = r.heap
           /\ sets' = <<Held(r.mf, r.err, "GetManifestsForNamespace")>>
    /\ UNCHANGED <<hist, clones, out, panicked, limit>>
    /\ cmdIdle

MfClone ==
    /\ ~panicked
    /\ Len(sets) < limit
    /\ \E i \in Usable :
         LET r == Clone(heap, sets[i].mf) IN
           /\ heap' = r.heap
           /\ sets' = Append(sets, Held(r.mf, "", sets[i].ctor))
           /\ clones' = Append(clones, [src |-> i, res |-> Len(sets) + 1])
    /\ UNCHANGED <<hist, out, panicked, limit>>
    /\ cmdIdle

MfUpdate ==
    /\ ~panicked
    /\ Len(sets) < limit
    /\ \E i \in Usable, options \in UpdateOptions :
         LET r == Update(heap, sets[i].mf, options) IN
           IF r.panic
             THEN /\ panicked' = TRUE
                  /\ hist' = Append(hist, [src |-> i, options |-> options, res |-> 0,
                                           objs |-> Snapshot(heap, ManifestsZero)])
                  /\ UNCHANGED <<heap, sets>>
             ELSE /\ heap' = r.heap
                  /\ sets' = Append(sets, Held(r.mf, "", sets[i].ctor))
                  /\ hist' = Append(hist, [src |-> i, options |-> options,
                                           res |-> Len(sets) + 1,
                                           objs |-> Snapshot(r.heap, r.mf)])
                  /\ UNCHANGED panicked
    /\ UNCHANGED <<clones, out, limit>>
    /\ cmdIdle

MfToObjects ==
    /\ ~panicked
    /\ \E i \in Usable :
         out' = [op |-> "ToObjects", src |-> i, val |-> ToObjects(sets[i].mf)]
    /\ UNCHANGED <<heap, sets, hist, clones, panicked, limit>>
    /\ cmdIdle

MfToCreatableObjects ==
    /\ ~panicked
    /\ \E i \in Usable :
         out' = [op |-> "ToCreatableObjects", src |-> i,
                 val |-> ToCreatableObjects(sets[i].mf)]
    /\ UNCHANGED <<heap, sets, hist, clones, panicked, limit>>
    /\ cmdIdle

MfToDeletableObjects ==
    /\ ~panicked
    /\ \E i \in Usable :
         out' = [op |-> "ToDeletableObjects", src |-> i,
                 val |-> ToDeletableObjects(sets[i].mf)]
    /\ UNCHANGED <<heap, sets, hist, clones, panicked, limit>>
    /\ cmdIdle

\* The client writes to an exported field of an object of a set it holds
\* (the members of Manifests are exported pointers).  One write per run; out
\* records the set and the object written to.
MfMutate ==
    /\ ~panicked
    /\ out = NoOut
    /\ \E i \in Usable, k \in DOMAIN Members, f \in {"name", "namespace"} :
         LET m == Members[k]
             p == sets[i].mf[m]
         IN /\ p # 0
            /\ heap' = [heap EXCEPT ![p][f] = "mutated"]
            /\ out' = [op |-> "Mutate", src |-> i, val |-> <<Iface(m, p)>>]
    /\ UNCHANGED <<sets, hist, clones, panicked, limit>>
    /\ cmdIdle

\* no command runs while the package is exercised
cmdInitIdle ==
    /\ cmd = DeployAll
    /\ commonOpts = [UserPlatform |-> Unknown, UpdaterConfigData |-> "",
                     PullIfNotPresent |-> FALSE, UpdaterType |-> "RTE", Replicas |-> 1]
    /\ opts = [clusterPlatform |-> Unknown, waitCompletion |-> FALSE]
    /\ probe = Unknown
    /\ pc = "Idle"
    /\ step = 0
    /\ calls = <<>>
    /\ results = <<>>
    /\ logged = <<>>
    /\ rendered = <<>>
    /\ updates = <<>>
    /\ events = <<>>
    /\ ret = Running

(***************************************************************************)
(* SpecMf: a client that builds a set and patches it.                      *)
(***************************************************************************)
InitMf == cmdInitIdle /\ mfInit(MaxSets)

NextMf ==
    \/ MfGetManifests
    \/ MfGetManifestsForNamespace
    \/ MfClone
    \/ MfUpdate

SpecMf == InitMf /\ [][NextMf]_vars

(***************************************************************************)
(* SpecExport: a client that also exports the sets it holds.               *)
(***************************************************************************)
InitExport == cmdInitIdle /\ mfInit(MaxExportSets)

NextExport ==
    \/ MfGetManifests
    \/ MfGetManifestsForNamespace
    \/ MfClone
    \/ MfUpdate
    \/ MfToObjects
    \/ MfToCreatableObjects
    \/ MfToDeletableObjects

SpecExport == InitExport /\ [][NextExport]_vars

(***************************************************************************)
(* SpecMutate: a client that patches sets and writes to an object of one.  *)
(***************************************************************************)
InitMutate == cmdInitIdle /\ mfInit(MaxMutateSets)

NextMutate ==
    \/ MfGetManifests
    \/ MfGetManifestsForNamespace
    \/ MfClone
    \/ MfUpdate
    \/ MfMutate

SpecMutate == InitMutate /\ [][NextMutate]_vars

(***************************************************************************)
(* The steps of a render command that work on manifest sets.  The Updater  *)
(* set is the rte set; sets[1] is what the variable updaterManifests       *)
(* holds.  The api and sched sets are seen through the calls made on them. *)
(***************************************************************************)
\* updaterManifests, err := updater.GetManifestsHandler(...) with err == nil
GetManifestsHandlerReturns ==
    /\ pc = "InStep"
    /\ Prog[step].fn = "updater.GetManifestsHandler"
    /\ LET r == GetManifests(heap, Prog[step].args.Platform, "") IN
         /\ heap' = r.heap
         /\ sets' = <<Held(r.mf, r.err, "GetManifests")>>
    /\ results' = Append(results, [fn |-> Prog[step].fn, err |-> ""])
    /\ Continue
    /\ UNCHANGED <<cmd, commonOpts, events, opts, probe, logged, updates>>
    /\ UNCHANGED <<hist, clones, out, panicked, limit>>

\* apiManifests.Update().ToObjects()
apiManifestsUpdate ==
    /\ pc = "InStep"
    /\ Prog[step].fn = "api.Update"
    /\ updates' = Append(updates, [fn |-> Prog[step].fn, options |-> Prog[step].args])
    /\ Continue
    /\ UNCHANGED <<cmd, commonOpts, events, opts, probe, results, logged>>
    /\ mfIdle

\* updaterManifests.Update(options): the result is assigned to the variable
\* (render scheduler-plugin) or only passed on to ToObjects (the others)
updaterManifestsUpdate ==
    /\ pc = "InStep"
    /\ Prog[step].fn = "updater.Update"
    /\ LET options == Prog[step].args
           r       == Update(heap, sets[1].mf, options)
       IN IF r.panic
            THEN /\ pc' = "Panicked"
                 /\ ret' = Panic(Prog[step].fn)
                 /\ panicked' = TRUE
                 /\ hist' = Append(hist, [src |-> 1, options |-> options, res |-> 0,
                                          objs |-> Snapshot(heap, ManifestsZero)])
                 /\ UNCHANGED <<step, calls, rendered, updates, heap, sets>>
            ELSE /\ heap' = r.heap
                 /\ sets' = IF Prog[step].to = "updaterManifests"
                              THEN <<Held(r.mf, "", sets[1].ctor)>>
                              ELSE Append(sets, Held(r.mf, "", sets[1].ctor))
                 /\ hist' = Append(hist, [src |-> 1, options |-> options,
                                          res |-> Len(sets'),
                                          objs |-> Snapshot(r.heap, r.mf)])
                 /\ updates' = Append(updates, [fn |-> Prog[step].fn, options |-> options])
                 /\ Continue
                 /\ UNCHANGED panicked
    /\ UNCHANGED <<cmd, commonOpts, events, opts, probe, results, logged>>
    /\ UNCHANGED <<clones, out, limit>>

\* schedManifests.Update(la, sched.UpdateOptions{...}), the namespace read
\* from updaterManifests.GetManifests().DaemonSet.Namespace
schedManifestsUpdate ==
    /\ pc = "InStep"
    /\ Prog[step].fn = "sched.Update"
    /\ updates' = Append(updates,
           [fn      |-> Prog[step].fn,
            options |-> schedUpdateOpts(commonOpts, heap[sets[1].mf.DaemonSet].namespace)])
    /\ Continue
    /\ UNCHANGED <<cmd, commonOpts, events, opts, probe, results, logged>>
    /\ mfIdle

Next ==
    \/ ResolvePlatform
    \/ RenderGate
    \/ Start
    \/ StepReturnsNil
    \/ StepReturnsErr
    \/ GetManifestsHandlerReturns
    \/ apiManifestsUpdate
    \/ updaterManifestsUpdate
    \/ schedManifestsUpdate

Spec == Init /\ [][Next]_vars

\* every call returns: a command that can take a step eventually takes it
FairSpec == Spec /\ WF_vars(Next)

(***************************************************************************)
(* SpecWait: deploy topology-updater and remove topology-updater with the  *)
(* Updater's Deploy/Remove seen from the inside (section 4.4): it builds   *)
(* the rte set for the platform, patches it, takes its creation or         *)
(* deletion plan and goes through the plan entry by entry, submitting the  *)
(* object and, when WaitCompletion is set, calling the entry's Wait.  On   *)
(* deploy the first error is returned; on remove an error is logged and    *)
(* the next entry is processed.  out holds the plan.                       *)
(***************************************************************************)
Plan        == out.val
Options     == calls[Len(calls)].args          \* what the command passed
InUpdater   == pc = "InStep" /\ Prog[step].fn \in {"updater.Deploy", "updater.Remove"}
Deploying   == Prog[step].fn = "updater.Deploy"
Submissions == {i \in DOMAIN events : events[i].ev = "submit"}
Last        == events[Len(events)]

\* the entry just submitted has a Wait that is to be called
WaitPending ==
    /\ events # <<>>
    /\ Last.ev = "submit"
    /\ Last.err = ""
    /\ Options.WaitCompletion
    /\ Plan[Last.entry].Wait.fn # ""

\* a call of the plan's pass returned err: deploy returns it, remove logs it
Outcome(ev, entry, err) ==
    /\ events' = Append(events, [ev |-> ev, entry |-> entry, err |-> err])
    /\ IF err # "" /\ Deploying
         THEN /\ pc' = "Failed"
              /\ ret' = Error(err, Prog[step].fn)
              /\ results' = Append(results, [fn |-> Prog[step].fn, err |-> err])
              /\ UNCHANGED logged
         ELSE /\ logged' = IF err # "" THEN Append(logged, "error removing: " \o err)
                                       ELSE logged
              /\ UNCHANGED <<pc, ret, results>>

\* GetManifests(options.Platform), Update(...), ToCreatableObjects or
\* ToDeletableObjects
updaterBuildsPlan ==
    /\ InUpdater
    /\ out = NoOut
    /\ LET g == GetManifests(heap, Options.Platform, "")
           u == Update(g.heap, g.mf, [ConfigData |-> Options.ConfigData,
                                      PullIfNotPresent |-> Options.PullIfNotPresent])
       IN IF u.panic
            THEN /\ pc' = "Panicked"
                 /\ ret' = Panic(Prog[step].fn)
                 /\ panicked' = TRUE
                 /\ UNCHANGED <<heap, sets, out>>
            ELSE /\ heap' = u.heap
                 /\ sets' = <<Held(g.mf, g.err, "GetManifests"),
                              Held(u.mf, "", "GetManifests")>>
                 /\ out' = IF Deploying
                             THEN [op |-> "ToCreatableObjects", src |-> 2,
                                   val |-> ToCreatableObjects(u.mf)]
                             ELSE [op |-> "ToDeletableObjects", src |-> 2,
                                   val |-> ToDeletableObjects(u.mf)]
                 /\ UNCHANGED <<pc, ret, panicked>>
    /\ UNCHANGED <<cmd, commonOpts, events, opts, probe, step, calls, results, logged,
                   rendered, updates>>
    /\ UNCHANGED <<hist, clones, limit>>

\* the next entry's object is submitted to the API
updaterSubmits ==
    /\ InUpdater
    /\ out # NoOut
    /\ ~WaitPending
    /\ Cardinality(Submissions) < Len(Plan)
    /\ \E err \in Errs \cup {""} : Outcome("submit", Cardinality(Submissions) + 1, err)
    /\ UNCHANGED <<cmd, commonOpts, opts, probe, step, calls, rendered, updates>>
    /\ mfIdle

\* the Wait of the entry just submitted is called and returns
updaterWaits ==
    /\ InUpdater
    /\ out # NoOut
    /\ WaitPending
    /\ \E err \in Errs \cup {""} : Outcome("wait", Last.entry, err)
    /\ UNCHANGED <<cmd, commonOpts, opts, probe, step, calls, rendered, updates>>
    /\ mfIdle

\* the plan is through: Deploy/Remove returns nil and so does the command
updaterReturns ==
    /\ InUpdater
    /\ out # NoOut
    /\ ~WaitPending
    /\ Cardinality(Submissions) = Len(Plan)
    /\ results' = Append(results, [fn |-> Prog[step].fn, err |-> ""])
    /\ Continue
    /\ UNCHANGED <<cmd, commonOpts, events, opts, probe, logged, updates>>
    /\ mfIdle

InitWait ==
    /\ Init
    /\ cmd.verb \in {"deploy", "remove"}
    /\ cmd.sub = "topology-updater"

NextWait ==
    \/ ResolvePlatform
    \/ Start
    \/ updaterBuildsPlan
    \/ updaterSubmits
    \/ updaterWaits
    \/ updaterReturns

SpecWait == InitWait /\ [][NextWait]_vars

(***************************************************************************)
(* Properties of the export functions (SpecExport).  They are stated of    *)
(* out, the value the last export call returned, and of the set it was     *)
(* called on.                                                              *)
(***************************************************************************)
Types(objs)   == [i \in DOMAIN objs |-> objs[i].type]
EntryTypes(p) == [i \in DOMAIN p |-> p[i].Obj.type]
Owns(mf, m)   == mf[m] # 0
OutSet        == sets[out.src]

\* the members a set owns, in the order of section 4.2
RenderOrder(mf) == SelectSeq(Members, LAMBDA m : Owns(mf, m))

\* <<"ConfigMap">> when the set owns one
ConfigPart(mf) == IF Owns(mf, "ConfigMap") THEN <<"ConfigMap">> ELSE <<>>

\* C5 (deterministic render order): ToObjects returns the objects the set
\* owns in the order Namespace, ServiceAccount, Role, RoleBinding, ConfigData,
\* Workload, the absent members left out.
C5_RenderOrder ==
    out.op = "ToObjects" =>
        /\ Types(out.val) = RenderOrder(OutSet.mf)
        /\ \A i \in DOMAIN out.val : out.val[i].ptr = OutSet.mf[out.val[i].type]

\* C6 (creation plan): ToCreatableObjects returns, on Kubernetes, the entries
\* Namespace, ServiceAccount, ConfigData (if present), Role, RoleBinding,
\* Workload, and on another platform ConfigData (if present), Role,
\* RoleBinding, Workload, each entry holding that member of the set; the
\* Workload is last and is the only entry with a Wait, which waits for pods
\* to be running, matched by a regular expression.
C6_CreationPlan ==
    out.op = "ToCreatableObjects" =>
        LET mf == OutSet.mf
            n  == Len(out.val)
        IN /\ EntryTypes(out.val) =
                (IF mf.plat = Kubernetes THEN <<"Namespace", "ServiceAccount">> ELSE <<>>)
                \o ConfigPart(mf) \o <<"Role", "RoleBinding", "DaemonSet">>
           /\ \A i \in 1..n : out.val[i].Obj.ptr = mf[out.val[i].Obj.type]
           /\ out.val[n].Wait = [fn |-> "wait.PodsToBeRunningByRegex", through |-> mf.DaemonSet]
           /\ \A i \in 1..(n - 1) : out.val[i].Wait.fn = ""

C6_Witness ==
    /\ out.op = "ToCreatableObjects"
    /\ OutSet.mf.plat = Kubernetes
    /\ Owns(OutSet.mf, "ConfigMap")
    /\ Len(out.val) = 6

\* C7 (deletion plan): ToDeletableObjects returns, on Kubernetes, exactly one
\* entry, the Namespace member, whose Wait waits for the namespace to be
\* gone; on another platform the Workload first, whose Wait waits for its
\* pods to be gone, then Role, RoleBinding and ConfigData if present, none of
\* them with a Wait.
C7_DeletionPlan ==
    out.op = "ToDeletableObjects" =>
        LET mf == OutSet.mf
            n  == Len(out.val)
        IN IF mf.plat = Kubernetes
             THEN /\ n = 1
                  /\ out.val[1].Obj = Iface("Namespace", mf.Namespace)
                  /\ out.val[1].Wait.fn = "wait.NamespaceToBeGone"
             ELSE /\ EntryTypes(out.val) =
                        <<"DaemonSet", "Role", "RoleBinding">> \o ConfigPart(mf)
                  /\ \A i \in 1..n : out.val[i].Obj.ptr = mf[out.val[i].Obj.type]
                  /\ out.val[1].Wait = [fn |-> "wait.PodsToBeGoneByRegex",
                                        through |-> mf.DaemonSet]
                  /\ \A i \in 2..n : out.val[i].Wait.fn = ""

C7_Witness ==
    /\ out.op = "ToDeletableObjects"
    /\ OutSet.mf.plat = Kubernetes
    /\ OutSet.ctor = "GetManifests"
    /\ out.src > 1
    /\ Len(out.val) = 1

Mentions(objs, type) == \E i \in DOMAIN objs : objs[i].type = type

FirstTwoAreNamespaceAndAccount(objs) ==
    /\ Len(objs) >= 2
    /\ {objs[1].type, objs[2].type} = {"Namespace", "ServiceAccount"}
    /\ objs[1].ptr # 0
    /\ objs[2].ptr # 0

\* C8 as the spec states it: on a platform other than Kubernetes ToObjects
\* has no Namespace and no ServiceAccount; on Kubernetes it has both, as its
\* first two entries, whichever constructor the set comes from.
C8_OwnershipAnyConstructor ==
    out.op = "ToObjects" =>
        IF OutSet.mf.plat = Kubernetes
          THEN FirstTwoAreNamespaceAndAccount(out.val)
          ELSE ~Mentions(out.val, "Namespace") /\ ~Mentions(out.val, "ServiceAccount")

\* C8 (platform-conditional ownership), amended: for a set that descends from
\* GetManifests or GetManifestsForNamespace by Clone and Update, ToObjects has
\* no Namespace and no ServiceAccount on a platform other than Kubernetes; on
\* Kubernetes a set that descends from GetManifests has both, as its first
\* two entries, and a set that descends from GetManifestsForNamespace has the
\* ServiceAccount as its first entry and no Namespace.
C8_Ownership ==
    out.op = "ToObjects" =>
        CASE OutSet.mf.plat # Kubernetes ->
               ~Mentions(out.val, "Namespace") /\ ~Mentions(out.val, "ServiceAccount")
          [] OutSet.mf.plat = Kubernetes /\ OutSet.ctor = "GetManifests" ->
               FirstTwoAreNamespaceAndAccount(out.val)
          [] OutSet.mf.plat = Kubernetes /\ OutSet.ctor = "GetManifestsForNamespace" ->
               /\ out.val[1].type = "ServiceAccount"
               /\ out.val[1].ptr # 0
               /\ ~Mentions(out.val, "Namespace")

C8_Witness ==
    /\ out.op = "ToObjects"
    /\ OutSet.mf.plat = Kubernetes
    /\ OutSet.ctor = "GetManifests"
    /\ out.src = 3
    /\ \E k \in DOMAIN hist : hist[k].res = 3
    /\ FirstTwoAreNamespaceAndAccount(out.val)

(***************************************************************************)
(* Properties of Update (SpecMf).  They are stated of hist, the Update     *)
(* calls made so far: the set each was called on, its options, the set it  *)
(* returned (0: it panicked) and that set's objects as they were returned. *)
(***************************************************************************)
Returned == {k \in DOMAIN hist : hist[k].res # 0}

ConfigMapsOf(mf) == {i \in DOMAIN ToObjects(mf) : ToObjects(mf)[i].type = "ConfigMap"}

\* C9 (config payload gating): a set Update returned for an empty payload has
\* no ConfigMap; a set it returned for a non-empty payload has exactly one,
\* whose data is the single entry config.yaml -> the payload; whatever set
\* Update was called on, one returned by an earlier Update with a payload
\* included.
C9_ConfigGating ==
    \A k \in Returned :
        LET mf      == sets[hist[k].res].mf
            payload == hist[k].options.ConfigData
        IN IF payload = ""
             THEN /\ mf.ConfigMap = 0
                  /\ ConfigMapsOf(mf) = {}
                  /\ hist[k].objs["ConfigMap"] = NilObj
             ELSE /\ mf.ConfigMap # 0
                  /\ Cardinality(ConfigMapsOf(mf)) = 1
                  /\ heap[mf.ConfigMap].kind = "ConfigMap"
                  /\ heap[mf.ConfigMap].data = {<<"config.yaml", payload>>}
                  /\ hist[k].objs["ConfigMap"] = heap[mf.ConfigMap]

C9_Witness ==
    \E k1, k2 \in Returned :
        /\ k1 < k2
        /\ hist[k2].src = hist[k1].res
        /\ hist[k1].options.ConfigData = "cfgA"
        /\ hist[k2].options.ConfigData = ""
        /\ sets[hist[k1].res].mf.ConfigMap # 0
        /\ sets[hist[k2].res].mf.ConfigMap = 0

\* the fields of a Manifests value that are not pointers
Internal(mf) == <<mf.plat, mf.namespace, mf.serviceAccount>>

\* C10 (idempotent patch): two Update calls on the same set with the same
\* options end the same way, and when they return, the sets they return have
\* the same members with the same fields, whatever Clone and Update calls
\* were made before or between them.
C10_IdempotentPatch ==
    \A k1, k2 \in DOMAIN hist :
        (hist[k1].src = hist[k2].src /\ hist[k1].options = hist[k2].options) =>
            /\ (hist[k1].res = 0) <=> (hist[k2].res = 0)
            /\ hist[k1].objs = hist[k2].objs
            /\ (hist[k1].res # 0 =>
                   Internal(sets[hist[k1].res].mf) = Internal(sets[hist[k2].res].mf))

C10_Witness ==
    \E k1, k2, k3 \in Returned :
        /\ k1 < k2 /\ k2 < k3
        /\ hist[k1].src = 1 /\ hist[k2].src = 1 /\ hist[k3].src = 1
        /\ hist[k1].options = hist[k3].options
        /\ hist[k2].options # hist[k1].options
        /\ hist[k1].objs = hist[k3].objs
        /\ hist[k1].res # hist[k3].res

(***************************************************************************)
(* Frame properties (SpecMutate).                                          *)
(***************************************************************************)
\* the addresses a set points to
Ptrs(mf) == {mf[Members[k]] : k \in DOMAIN Members} \ {0}

\* the objects of the sets held before the step are what they were
SameObjects(among) ==
    \A i \in among : Snapshot(heap', sets[i].mf) = Snapshot(heap, sets[i].mf)

\* C11 (non-aliasing, no in-place mutation): a Clone or an Update call leaves
\* every object and every internal field (platform, namespace, service
\* account name) of every set held before the call unchanged, its receiver
\* included; no two sets held share an object; and a write to a field of an
\* object of one set changes no object of any other set.
C11_NoAliasing ==
    [][ /\ \A i \in DOMAIN sets : sets'[i] = sets[i]
        /\ \A i, j \in DOMAIN sets' :
               i # j => Ptrs(sets'[i].mf) \cap Ptrs(sets'[j].mf) = {}
        /\ (hist' # hist \/ clones' # clones) => SameObjects(DOMAIN sets)
        /\ out' # out => SameObjects(DOMAIN sets \ {out'.src})
      ]_vars

\* an object of a set that Update returned was written to, and the object of
\* the receiver is still what it was
C11_Witness ==
    /\ out.op = "Mutate"
    /\ \E k \in Returned :
         /\ hist[k].res = out.src
         /\ LET m == out.val[1].type IN
              /\ heap[out.val[1].ptr].name = "mutated"
              /\ Snapshot(heap, sets[hist[k].src].mf)[m].name # "mutated"
              /\ Snapshot(heap, sets[hist[k].src].mf)[m].kind # "nil"

(***************************************************************************)
(* Properties of Clone and of the constructors (SpecMf).                   *)
(***************************************************************************)
\* the objects ToObjects returns, by content
Contents(h, mf) == [i \in DOMAIN ToObjects(mf) |-> h[ToObjects(mf)[i].ptr]]

\* C12 (Clone completeness): the set Clone returns owns a member exactly when
\* the set cloned owns it, with equal content, so that ToObjects of the clone
\* equals ToObjects of the set cloned field for field.
C12_CloneComplete ==
    \A k \in DOMAIN clones :
        LET m == sets[clones[k].src].mf
            c == sets[clones[k].res].mf
        IN /\ \A x \in DOMAIN Members : Owns(c, Members[x]) <=> Owns(m, Members[x])
           /\ Snapshot(heap, c) = Snapshot(heap, m)
           /\ Types(ToObjects(c)) = Types(ToObjects(m))
           /\ Contents(heap, c) = Contents(heap, m)

\* C18 (no partial set on construction failure): a constructor that fails
\* returns the construction error and a set that owns no object at all.
C18_NoPartialSet ==
    \A i \in DOMAIN sets :
        sets[i].err # "" =>
            /\ sets[i].err \in {LoadError(b) : b \in Broken \ {""}}
            /\ Ptrs(sets[i].mf) = {}

\* the members that live in a namespace
NamespaceScoped == {"ServiceAccount", "Role", "RoleBinding", "ConfigMap", "DaemonSet"}

\* C19 (missing namespace fails loudly): Update on a set whose resolved
\* namespace is empty never returns namespace-scoped objects that carry an
\* empty namespace.
C19_MissingNamespaceFails ==
    \A k \in Returned :
        sets[hist[k].src].mf.namespace = "" =>
            \A m \in NamespaceScoped :
                hist[k].objs[m].kind # "nil" => hist[k].objs[m].namespace # ""

(***************************************************************************)
(* The creation plan against the rendered objects (SpecExport).            *)
(***************************************************************************)
\* C20 (creation plan covers the same object set): the objects of the entries
\* of ToCreatableObjects are exactly the objects of ToObjects of the same
\* set: the same members, each exactly once, no entry more and none less.
C20_PlanCoversObjects ==
    out.op = "ToCreatableObjects" =>
        LET objs == ToObjects(OutSet.mf) IN
          /\ Len(out.val) = Len(objs)
          /\ {out.val[i].Obj : i \in DOMAIN out.val} = {objs[i] : i \in DOMAIN objs}
          /\ \A i, j \in DOMAIN out.val : out.val[i].Obj = out.val[j].Obj => i = j

Removing == cmd.verb = "remove" /\ pc # "Init" /\ opts.clusterPlatform # Unknown

\* Every remove command, the remove api, remove scheduler-plugin and remove
\* topology-updater subcommands included, returns success once the platform
\* is resolved, whatever its removal steps return.
C16_RemoveAlwaysExitsZero ==
    Removing => (pc # "Failed" /\ ret.kind # "error")

\* C16 (what the remove commands return): once the platform is resolved the
\* aggregate remove command never returns an error; a per-subsystem remove
\* subcommand runs its one removal step and returns what that step returns:
\* nil when the step succeeds, the step's error (not logged by the command)
\* when it fails.
C16_RemoveExit ==
    Removing =>
        IF cmd.sub = "all"
          THEN pc # "Failed" /\ ret.kind # "error"
          ELSE /\ Len(calls) <= 1
               /\ logged = <<>>
               /\ (ret.kind = "running" <=> pc \notin {"Done", "Failed"})
               /\ (pc \in {"Done", "Failed"} =>
                      /\ Len(results) = 1
                      /\ results[1].fn = calls[1].fn
                      /\ (results[1].err = "" => pc = "Done" /\ ret = Nil)
                      /\ (results[1].err # "" =>
                             /\ pc = "Failed"
                             /\ ret = Error(results[1].err, results[1].fn)))

\* remove scheduler-plugin returned the error of the Scheduler's removal
C16_Witness ==
    /\ cmd = [verb |-> "remove", sub |-> "scheduler-plugin"]
    /\ opts.clusterPlatform # Unknown
    /\ results = <<[fn |-> "sched.Remove", err |-> "errA"]>>
    /\ pc = "Failed"
    /\ ret = Error("errA", "sched.Remove")

(***************************************************************************)
(* What the render commands pass to the Scheduler's Update (Spec).         *)
(***************************************************************************)
\* the sched.Update calls made so far
SchedUpdates == {i \in DOMAIN updates : updates[i].fn = "sched.Update"}

\* C13 (cross-subsystem reference): the NodeResourcesNamespace a render
\* command passes to the Scheduler's Update is the workload namespace of the
\* Updater's set as Update returned it, in the aggregate render command and
\* in render scheduler-plugin alike.
C13_CrossSubsystemReference ==
    \A i \in SchedUpdates :
        /\ Returned # {}
        /\ updates[i].options.NodeResourcesNamespace =
               hist[Len(hist)].objs["DaemonSet"].namespace

\* C15 (replica validation): a render command that patches the Scheduler
\* never calls the Scheduler's Update with a replica count below 1; with
\* such a count it renders nothing and does not return success.
C15_ReplicaValidation ==
    /\ \A i \in SchedUpdates : updates[i].options.Replicas >= 1
    /\ (cmd.verb = "render" /\ cmd.sub \in {"all", "scheduler-plugin"}
           /\ commonOpts.Replicas < 1) =>
          /\ rendered = <<>>
          /\ pc # "Done"

(***************************************************************************)
(* The wait-completion flag (SpecWait).                                    *)
(***************************************************************************)
\* the wait calls made so far
Waits == {i \in DOMAIN events : events[i].ev = "wait"}

C21_UpdateTotal ==
    /\ ~panicked
    /\ \A k \in DOMAIN hist : hist[k].res # 0

\* the plan the last export call returned, if it was a plan
PlanOut == IF out.op \in {"ToCreatableObjects", "ToDeletableObjects"} THEN out.val ELSE <<>>

\* C22 (plan entries hold an owned object): every entry of the creation plan
\* and of the deletion plan refers to an object the set owns, and the Wait of
\* an entry reads through a member the set owns.
C22_PlanEntriesOwned ==
    \A i \in DOMAIN PlanOut :
        /\ PlanOut[i].Obj.ptr # 0
        /\ PlanOut[i].Obj.ptr = OutSet.mf[PlanOut[i].Obj.type]
        /\ PlanOut[i].Wait.fn # "" => PlanOut[i].Wait.through # 0

(***************************************************************************)
(* The options of a subcommand against those of the aggregate (Spec).      *)
(***************************************************************************)
\* the steps of the aggregate command of the same verb, same command line
Aggregate == Program([verb |-> cmd.verb, sub |-> "all"], commonOpts, opts)

\* C23 (subcommand option parity): a deploy or remove subcommand calls its
\* subsystem's step with the options record the aggregate deploy or remove
\* command passes to that step for the same command line.
C23_OptionParity ==
    (cmd.verb \in {"deploy", "remove"} /\ cmd.sub # "all") =>
        \A i \in DOMAIN calls :
            \E j \in DOMAIN Aggregate :
                /\ Aggregate[j].fn = calls[i].fn
                /\ Aggregate[j].args = calls[i].args

=============================================================================
